---------------------------- MODULE Spec2Model ----------------------------
(***************************************************************************)
(* Model of src/task_2.py: the Version class (regular-expression parser,   *)
(* constructor, three-way compare and the derived operators).              *)
(*                                                                         *)
(* A Python str is modelled as a sequence of one-character strings, a      *)
(* Python int as an integer (unbounded, as in Python), a raised exception  *)
(* as a record [exc, msg].                                                 *)
(***************************************************************************)
EXTENDS Integers, Sequences, FiniteSets

VARIABLES version, self, raised, a, b, c, result, pc

vars == <<version, self, raised, a, b, c, result, pc>>

(***************************************************************************)
(* Characters and Python literals                                          *)
(***************************************************************************)
Digits == {"0", "1", "2", "3", "4", "5", "6", "7", "8", "9"}

NonZeroDigits == Digits \ {"0"}

Letters ==
    {"a", "b", "c", "d", "e", "f", "g", "h", "i", "j", "k", "l", "m",
     "n", "o", "p", "q", "r", "s", "t", "u", "v", "w", "x", "y", "z",
     "A", "B", "C", "D", "E", "F", "G", "H", "I", "J", "K", "L", "M",
     "N", "O", "P", "Q", "R", "S", "T", "U", "V", "W", "X", "Y", "Z"}

DigitValue ==
    [d \in Digits |->
        CASE d = "0" -> 0 [] d = "1" -> 1 [] d = "2" -> 2 [] d = "3" -> 3
          [] d = "4" -> 4 [] d = "5" -> 5 [] d = "6" -> 6 [] d = "7" -> 7
          [] d = "8" -> 8 [] d = "9" -> 9]

S_a == <<"a">>
S_b == <<"b">>
S_rc == <<"r", "c">>
S_r == <<"r">>
S_c == <<"c">>
S_alpha == <<"a", "l", "p", "h", "a">>
S_beta == <<"b", "e", "t", "a">>
S_release == <<"r", "e", "l", "e", "a", "s", "e">>
S_release_candidate ==
    <<"r", "e", "l", "e", "a", "s", "e", "_",
      "c", "a", "n", "d", "i", "d", "a", "t", "e">>

\* The value None of a regular-expression group that took no part in the match.
None == <<"None">>

NoError == [exc |-> "", msg |-> <<>>]

ValueError(msg) == [exc |-> "ValueError", msg |-> msg]

\* KeyError's message is the repr of the missing key.
KeyError(key) == [exc |-> "KeyError", msg |-> <<"'">> \o key \o <<"'">>]

\* f'{version} is not valid version'
NotValidVersion(v) ==
    v \o <<" ", "i", "s", " ", "n", "o", "t", " ", "v", "a", "l", "i", "d",
           " ", "v", "e", "r", "s", "i", "o", "n">>

\* "invalid literal for int() with base 10: " followed by repr(s)
InvalidLiteral(s) ==
    <<"i", "n", "v", "a", "l", "i", "d", " ", "l", "i", "t", "e", "r", "a",
      "l", " ", "f", "o", "r", " ", "i", "n", "t", "(", ")", " ", "w", "i",
      "t", "h", " ", "b", "a", "s", "e", " ", "1", "0", ":", " ">>
      \o <<"'">> \o s \o <<"'">>

(***************************************************************************)
(* Version._REGEXP                                                         *)
(***************************************************************************)
\* 0|[1-9]\d*
NumericIdentifier(s) ==
    \/ s = <<"0">>
    \/ /\ Len(s) >= 1
       /\ s[1] \in NonZeroDigits
       /\ \A i \in 2..Len(s) : s[i] \in Digits

\* \d*[a-zA-Z-][0-9a-zA-Z-]*
AlphanumIdentifier(s) ==
    \E k \in 1..Len(s) :
        /\ \A i \in 1..(k - 1) : s[i] \in Digits
        /\ s[k] \in Letters \cup {"-"}
        /\ \A i \in (k + 1)..Len(s) : s[i] \in Digits \cup Letters \cup {"-"}

\* str.split(sep) for a one-character separator
RECURSIVE split(_, _)
split(s, sep) ==
    IF \A i \in 1..Len(s) : s[i] # sep
    THEN <<s>>
    ELSE LET k == CHOOSE i \in 1..Len(s) :
                    /\ s[i] = sep
                    /\ \A j \in 1..(i - 1) : s[j] # sep
         IN  <<SubSeq(s, 1, k - 1)>> \o split(SubSeq(s, k + 1, Len(s)), sep)

\* a|b|rc|r|alpha|beta|release|release_candidate
ShortenTokens ==
    {S_a, S_b, S_rc, S_r, S_alpha, S_beta, S_release, S_release_candidate}

\* -((0|[1-9]\d*|\d*[a-zA-Z-][0-9a-zA-Z-]*)(\.(...))*)
\* No identifier alternative matches ".", so the identifiers are the pieces
\* between the dots.
DefaultPreRelease(s) ==
    /\ Len(s) >= 2
    /\ s[1] = "-"
    /\ LET ids == split(Tail(s), ".")
       IN  \A i \in 1..Len(ids) :
               NumericIdentifier(ids[i]) \/ AlphanumIdentifier(ids[i])

\* Index of the first sep at or after position from; 0 when there is none.
FirstIndex(s, sep, from) ==
    IF \E i \in from..Len(s) : s[i] = sep
    THEN CHOOSE i \in from..Len(s) :
             /\ s[i] = sep
             /\ \A j \in from..(i - 1) : s[j] # sep
    ELSE 0

\* Length of the longest prefix of s made of digits.
DigitRun(s) ==
    IF \A i \in 1..Len(s) : s[i] \in Digits
    THEN Len(s)
    ELSE (CHOOSE i \in 1..Len(s) :
              /\ s[i] \notin Digits
              /\ \A j \in 1..(i - 1) : s[j] \in Digits) - 1

\* cls._REGEXP.match(version): the groups of the match, or matched = FALSE.
\* The pattern is anchored by ^ and $; Python's $ matches at the end of the
\* string and also just before a newline that ends the string, and nothing
\* in the pattern matches a newline.  major and minor are digit runs closed
\* by a literal dot, patch is a digit run that no pre-release can extend, so
\* the decomposition is unique.
REGEXP_match(v) ==
    LET n     == Len(v)
        body  == IF n >= 1 /\ v[n] = "\n" THEN SubSeq(v, 1, n - 1) ELSE v
        d1    == FirstIndex(body, ".", 1)
        d2    == IF d1 = 0 THEN 0 ELSE FirstIndex(body, ".", d1 + 1)
        major == SubSeq(body, 1, d1 - 1)
        minor == SubSeq(body, d1 + 1, d2 - 1)
        after == SubSeq(body, d2 + 1, Len(body))
        k     == DigitRun(after)
        patch == SubSeq(after, 1, k)
        rest  == SubSeq(after, k + 1, Len(after))
        nomatch == [matched |-> FALSE, major |-> None, minor |-> None,
                    patch |-> None, shorten_pre_release |-> None,
                    default_pre_release |-> None]
    IN  IF d1 = 0 \/ d2 = 0
        THEN nomatch
        ELSE IF ~ (NumericIdentifier(major) /\ NumericIdentifier(minor)
                     /\ NumericIdentifier(patch))
        THEN nomatch
        ELSE IF rest = <<>>
        THEN [matched |-> TRUE, major |-> major, minor |-> minor,
              patch |-> patch, shorten_pre_release |-> None,
              default_pre_release |-> None]
        ELSE IF rest \in ShortenTokens
        THEN [matched |-> TRUE, major |-> major, minor |-> minor,
              patch |-> patch, shorten_pre_release |-> rest,
              default_pre_release |-> None]
        ELSE IF DefaultPreRelease(rest)
        THEN [matched |-> TRUE, major |-> major, minor |-> minor,
              patch |-> patch, shorten_pre_release |-> None,
              default_pre_release |-> rest]
        ELSE nomatch

(***************************************************************************)
(* Version.parse, int, Version.replace_shortening                          *)
(***************************************************************************)
\* if match is None: raise ValueError(...); return the five groups
MatchOrRaise(v, match) ==
    IF ~ match.matched
    THEN [raised |-> ValueError(NotValidVersion(v)), value |-> match]
    ELSE [raised |-> NoError, value |-> match]

\* parse(cls, version): the five groups, or ValueError naming the input.
parse(v) == MatchOrRaise(v, REGEXP_match(v))

\* Value of a non-empty run of decimal digits.
RECURSIVE DecimalValue(_)
DecimalValue(s) ==
    IF Len(s) = 0 THEN 0
    ELSE 10 * DecimalValue(SubSeq(s, 1, Len(s) - 1)) + DigitValue[s[Len(s)]]

\* int(s) on the strings the pattern lets through (digits, letters, hyphen):
\* an optional sign and one or more digits, leading zeros allowed.
IsIntLiteral(s) ==
    LET digits == IF Len(s) >= 1 /\ s[1] = "-" THEN Tail(s) ELSE s
    IN  /\ Len(digits) >= 1
        /\ \A i \in 1..Len(digits) : digits[i] \in Digits

int(s) ==
    IF s[1] = "-" THEN 0 - DecimalValue(Tail(s)) ELSE DecimalValue(s)

\* An element of pre_release: a Python int or a Python str.
IntId(n) == [type |-> "int", i |-> n, s |-> <<>>]

StrId(s) == [type |-> "str", i |-> 0, s |-> s]

SHORTENING ==
    [x \in {S_a, S_b, S_rc, S_r} |->
        CASE x = S_a  -> S_alpha
          [] x = S_b  -> S_beta
          [] x = S_rc -> S_release_candidate
          [] x = S_r  -> S_release]

\* replace_shortening keeping a string that is no int literal as it is,
\* where the code converts it with int() and raises.
replace_shortening_KeepsOpaque(shorten_string) ==
    IF shorten_string \in {S_a, S_b, S_rc, S_c}
    THEN IF shorten_string \in DOMAIN SHORTENING
         THEN [raised |-> NoError, value |-> StrId(SHORTENING[shorten_string])]
         ELSE [raised |-> KeyError(shorten_string), value |-> IntId(0)]
    ELSE IF shorten_string \notin
                {S_alpha, S_beta, S_release_candidate, S_release}
            /\ IsIntLiteral(shorten_string)
    THEN [raised |-> NoError, value |-> IntId(int(shorten_string))]
    ELSE [raised |-> NoError, value |-> StrId(shorten_string)]

replace_shortening(shorten_string) ==
    IF shorten_string \in {S_a, S_b, S_rc, S_c}
    THEN IF shorten_string \in DOMAIN SHORTENING
         THEN [raised |-> NoError, value |-> StrId(SHORTENING[shorten_string])]
         ELSE [raised |-> KeyError(shorten_string), value |-> IntId(0)]
    ELSE IF shorten_string \notin
                {S_alpha, S_beta, S_release_candidate, S_release}
    THEN IF IsIntLiteral(shorten_string)
         THEN [raised |-> NoError, value |-> IntId(int(shorten_string))]
         ELSE [raised |-> ValueError(InvalidLiteral(shorten_string)),
               value |-> IntId(0)]
    ELSE [raised |-> NoError, value |-> StrId(shorten_string)]

(***************************************************************************)
(* Version.__init__                                                        *)
(***************************************************************************)
\* No object: the name a constructor call would have bound stays unbound.
NoVersion == [main_version |-> <<>>, pre_release |-> <<>>, pre_release_len |-> 0]

IsVersion(v) == v # NoVersion

\* tuple(...) of the results rs of replace_shortening: the first element
\* that raises ends the construction.
TupleOrRaise(rs, bad) ==
    IF bad = {}
    THEN [raised |-> NoError, value |-> [i \in DOMAIN rs |-> rs[i].value]]
    ELSE [raised |-> rs[CHOOSE i \in bad : \A j \in bad : i <= j].raised,
          value |-> <<>>]

Raising(rs) == {i \in DOMAIN rs : rs[i].raised # NoError}

\* tuple(self.replace_shortening(x) for x in xs)
ReplaceAll(xs) ==
    TupleOrRaise([i \in 1..Len(xs) |-> replace_shortening(xs[i])],
                 Raising([i \in 1..Len(xs) |-> replace_shortening(xs[i])]))

\* self.main_version = tuple([int(major), int(minor), int(patch)])
MainVersion(g) == <<int(g.major), int(g.minor), int(g.patch)>>

\* self.pre_release, from the shorthand group, the default group or neither
PreRelease(g) ==
    IF g.shorten_pre_release = None
    THEN IF g.default_pre_release # None
         THEN ReplaceAll(split(Tail(g.default_pre_release), "."))
         ELSE [raised |-> NoError, value |-> <<>>]
    ELSE ReplaceAll(<<g.shorten_pre_release>>)

\* The object with its three attributes, unless replace_shortening raised.
Attributes(main_version, pre) ==
    IF pre.raised # NoError
    THEN [raised |-> pre.raised, self |-> NoVersion]
    ELSE [raised |-> NoError,
          self |-> [main_version |-> main_version,
                    pre_release |-> pre.value,
                    pre_release_len |-> Len(pre.value)]]

\* __init__ after self.parse(version) returned p or raised
FromGroups(p) ==
    IF p.raised # NoError
    THEN [raised |-> p.raised, self |-> NoVersion]
    ELSE Attributes(MainVersion(p.value), PreRelease(p.value))

\* Version(version): the constructed object, or the exception raised.
Version(v) == FromGroups(parse(v))

(***************************************************************************)
(* Version.partial_compare, Version.compare and the derived operators      *)
(***************************************************************************)
\* What a call returns or raises: an int, None, NotImplemented or KeyError.
Ret(n) == [kind |-> "int", v |-> n]

RetNone == [kind |-> "None", v |-> 0]

NotImplemented == [kind |-> "NotImplemented", v |-> 0]

RaisedKeyError == [kind |-> "KeyError", v |-> 0]

PRIORITY ==
    [x \in {S_alpha, S_beta, S_release_candidate, S_release} |->
        CASE x = S_alpha             -> 0
          [] x = S_beta              -> 1
          [] x = S_release_candidate -> 2
          [] x = S_release           -> 3]

\* ThreeWay without its last branch: 1 if x > y else 0
ThreeWay_NeverLess(x, y) == IF x > y THEN Ret(1) ELSE Ret(0)

\* 1 if x > y else 0 if x == y else -1
ThreeWay(x, y) == IF x > y THEN Ret(1) ELSE IF x = y THEN Ret(0) ELSE Ret(0 - 1)

\* partial_compare returning -1 for a str against an int as well.
partial_compare_StageBelowInt(o1, o2) ==
    IF o1.type = "int"
    THEN IF o2.type = "int" THEN ThreeWay(o1.i, o2.i)
         ELSE IF o2.type = "str" THEN Ret(0 - 1)
         ELSE RetNone
    ELSE IF o1.type = "str"
    THEN IF o2.type = "int" THEN Ret(0 - 1)
         ELSE IF o2.type = "str"
         THEN IF o1.s \in DOMAIN PRIORITY /\ o2.s \in DOMAIN PRIORITY
              THEN ThreeWay(PRIORITY[o1.s], PRIORITY[o2.s])
              ELSE RaisedKeyError
         ELSE RetNone
    ELSE RetNone

\* partial_compare ranking an int against a str by the token's priority.
partial_compare_ByMagnitude(o1, o2) ==
    IF o1.type = "int"
    THEN IF o2.type = "int" THEN ThreeWay(o1.i, o2.i)
         ELSE IF o2.type = "str"
         THEN IF o2.s \in DOMAIN PRIORITY
              THEN ThreeWay(o1.i, PRIORITY[o2.s])
              ELSE RaisedKeyError
         ELSE RetNone
    ELSE IF o1.type = "str"
    THEN IF o2.type = "int"
         THEN IF o1.s \in DOMAIN PRIORITY
              THEN ThreeWay(PRIORITY[o1.s], o2.i)
              ELSE RaisedKeyError
         ELSE IF o2.type = "str"
         THEN IF o1.s \in DOMAIN PRIORITY /\ o2.s \in DOMAIN PRIORITY
              THEN ThreeWay(PRIORITY[o1.s], PRIORITY[o2.s])
              ELSE RaisedKeyError
         ELSE RetNone
    ELSE RetNone

partial_compare(o1, o2) ==
    IF o1.type = "int"
    THEN IF o2.type = "int" THEN ThreeWay(o1.i, o2.i)
         ELSE IF o2.type = "str" THEN Ret(0 - 1)
         ELSE RetNone
    ELSE IF o1.type = "str"
    THEN IF o2.type = "int" THEN Ret(1)
         ELSE IF o2.type = "str"
         THEN IF o1.s \in DOMAIN PRIORITY /\ o2.s \in DOMAIN PRIORITY
              THEN ThreeWay(PRIORITY[o1.s], PRIORITY[o2.s])
              ELSE RaisedKeyError
         ELSE RetNone
    ELSE RetNone

\* Tuple comparison that looks at the first two positions only.
TupleLess_MajorMinorOnly(x, y) ==
    \E i \in 1..2 :
        /\ i <= Len(x)
        /\ i <= Len(y)
        /\ \A j \in 1..(i - 1) : x[j] = y[j]
        /\ x[i] < y[i]

\* Python's < on tuples of ints: the first differing position decides, a
\* proper prefix is the smaller.
TupleLess(x, y) ==
    \/ \E i \in 1..Len(x) :
          /\ i <= Len(y)
          /\ \A j \in 1..(i - 1) : x[j] = y[j]
          /\ x[i] < y[i]
    \/ /\ Len(x) < Len(y)
       /\ \A j \in 1..Len(x) : x[j] = y[j]

min(x, y) == IF x <= y THEN x ELSE y

\* for i in range(min_len): the first position whose partial_compare is 1 or
\* -1 decides (or raises); a position comparing 0 or None is passed over.
RECURSIVE PreReleaseLoop(_, _, _, _)
PreReleaseLoop(p1, p2, i, min_len) ==
    IF i > min_len THEN RetNone
    ELSE LET r == partial_compare(p1[i], p2[i])
         IN  IF r = RaisedKeyError THEN r
             ELSE IF r = Ret(1) THEN Ret(1)
             ELSE IF r = Ret(0 - 1) THEN Ret(0 - 1)
             ELSE PreReleaseLoop(p1, p2, i + 1, min_len)

\* compare with the results of the two one-sided empty cases exchanged.
compare_FinalBelowPreRelease(x, other) ==
    IF ~ IsVersion(other) THEN NotImplemented
    ELSE IF TupleLess(other.main_version, x.main_version) THEN Ret(1)
    ELSE IF TupleLess(x.main_version, other.main_version) THEN Ret(0 - 1)
    ELSE IF x.pre_release_len = 0 /\ other.pre_release_len = 0 THEN Ret(0)
    ELSE IF x.pre_release_len = 0 THEN Ret(0 - 1)
    ELSE IF other.pre_release_len = 0 THEN Ret(1)
    ELSE LET min_len == min(x.pre_release_len, other.pre_release_len)
             r == PreReleaseLoop(x.pre_release, other.pre_release, 1, min_len)
         IN  IF r # RetNone THEN r
             ELSE IF x.pre_release_len > other.pre_release_len THEN Ret(1)
             ELSE IF x.pre_release_len < other.pre_release_len THEN Ret(0 - 1)
             ELSE Ret(0)

compare(x, other) ==
    IF ~ IsVersion(other) THEN NotImplemented
    ELSE IF TupleLess(other.main_version, x.main_version) THEN Ret(1)
    ELSE IF TupleLess(x.main_version, other.main_version) THEN Ret(0 - 1)
    ELSE IF x.pre_release_len = 0 /\ other.pre_release_len = 0 THEN Ret(0)
    ELSE IF x.pre_release_len = 0 THEN Ret(1)
    ELSE IF other.pre_release_len = 0 THEN Ret(0 - 1)
    ELSE LET min_len == min(x.pre_release_len, other.pre_release_len)
             r == PreReleaseLoop(x.pre_release, other.pre_release, 1, min_len)
         IN  IF r # RetNone THEN r
             ELSE IF x.pre_release_len > other.pre_release_len THEN Ret(1)
             ELSE IF x.pre_release_len < other.pre_release_len THEN Ret(0 - 1)
             ELSE Ret(0)

\* __eq__ that leaves pre_release out.
eq_MainVersionOnly(x, other) == x.main_version = other.main_version

\* x == other
eq(x, other) ==
    /\ x.main_version = other.main_version
    /\ x.pre_release = other.pre_release

\* x < other
lt(x, other) == compare(x, other) = Ret(0 - 1)

\* x > other: Version defines no __gt__, so Python evaluates the reflected
\* other.__lt__(x).
gt(x, other) == lt(other, x)

\* x != other: Python's default __ne__ inverts __eq__.
ne(x, other) == ~ eq(x, other)

(***************************************************************************)
(* Input strings of the constructor                                        *)
(***************************************************************************)
MaxPieces == 3

H_1_0_0 == <<"1", ".", "0", ".", "0">>
H_0_2_10 == <<"0", ".", "2", ".", "1", "0">>
H_1_01_0 == <<"1", ".", "0", "1", ".", "0">>
H_v1_0_0 == <<"v", "1", ".", "0", ".", "0">>
H_1_0 == <<"1", ".", "0">>

ParseHeads == {H_1_0_0, H_0_2_10, H_1_01_0, H_v1_0_0, H_1_0}

Pieces ==
    {<<"-">>, <<".">>, <<"0">>, <<"1">>, <<"\n">>, <<"f", "o", "o">>, S_c}
      \cup ShortenTokens

RECURSIVE Flatten(_)
Flatten(ps) == IF ps = <<>> THEN <<>> ELSE Head(ps) \o Flatten(Tail(ps))

ParseInputs ==
    {h \o Flatten(ps) :
        h \in ParseHeads,
        ps \in UNION {[1..n -> Pieces] : n \in 0..MaxPieces}}

(***************************************************************************)
(* Constructing one Version from an input string                           *)
(***************************************************************************)
\* Nothing compared yet.
NoResults ==
    [ab |-> RetNone, ba |-> RetNone, bc |-> RetNone, ac |-> RetNone,
     a_lt_b |-> FALSE, b_gt_a |-> FALSE, b_lt_a |-> FALSE,
     a_eq_b |-> FALSE, b_ne_a |-> FALSE]

InitParse ==
    /\ version \in ParseInputs
    /\ self = NoVersion
    /\ raised = NoError
    /\ a = NoVersion
    /\ b = NoVersion
    /\ c = NoVersion
    /\ result = NoResults
    /\ pc = "call"

\* The constructor call r returns or raises; next is where control goes on
\* a return.
Return(r, next) ==
    /\ raised' = r.raised
    /\ pc' = IF r.raised = NoError THEN next ELSE "raised"

SetSelf(r) == self' = r.self /\ Return(r, "constructed")

\* self = Version(version)
Construct ==
    /\ pc = "call"
    /\ SetSelf(Version(version))
    /\ UNCHANGED <<version, a, b, c, result>>

NextParse == Construct

SpecParse == InitParse /\ [][NextParse]_vars

(***************************************************************************)
(* Constructing Versions and comparing them, as the loop of main()         *)
(* constructs its operands and compares them.  A Version keeps nothing of  *)
(* the string it was built from.                                           *)
(***************************************************************************)
MaxIdentifiers == 2

C_1_2_2 == <<"1", ".", "2", ".", "2">>
C_1_2_10 == <<"1", ".", "2", ".", "1", "0">>
C_1_10_0 == <<"1", ".", "1", "0", ".", "0">>
C_2_0_0 == <<"2", ".", "0", ".", "0">>

\* '.'.join(ids)
RECURSIVE JoinDots(_)
JoinDots(ids) ==
    IF Len(ids) = 1 THEN ids[1] ELSE ids[1] \o <<".">> \o JoinDots(Tail(ids))

\* "-" and up to MaxIdentifiers identifiers of ids, joined by dots
DefaultForms(ids) ==
    {<<"-">> \o JoinDots(xs) :
        xs \in UNION {[1..n -> ids] : n \in 1..MaxIdentifiers}}

\* Operands of the two-operand comparisons.
CompareInputs ==
    {h \o p :
        h \in {C_1_2_2, C_1_2_10, C_1_10_0, C_2_0_0},
        p \in {<<>>} \cup ShortenTokens
                \cup DefaultForms({<<"2">>, <<"1", "0">>, S_a, S_rc,
                                   <<"f", "o", "o">>})}

\* Operands of the three-operand comparisons.
TransitiveInputs ==
    {h \o p :
        h \in {C_1_2_2, C_1_2_10, C_2_0_0},
        p \in {<<>>, <<"-", "2">>, <<"-", "-", "1">>, <<"-", "f", "o", "o">>}
                \cup ShortenTokens
                \cup DefaultForms({<<"1", "0">>, S_alpha})}

Init ==
    /\ version = <<>>
    /\ self = NoVersion
    /\ raised = NoError
    /\ a = NoVersion
    /\ b = NoVersion
    /\ c = NoVersion
    /\ result = NoResults
    /\ pc = "a"

SetA(r) == a' = r.self /\ Return(r, "b")

\* a = Version(s)
NewA(inputs) ==
    /\ pc = "a"
    /\ \E s \in inputs : SetA(Version(s))
    /\ UNCHANGED <<version, self, b, c, result>>

SetB(r) == b' = r.self /\ Return(r, "c")

\* b = Version(s)
NewB(inputs) ==
    /\ pc = "b"
    /\ \E s \in inputs : SetB(Version(s))
    /\ UNCHANGED <<version, self, a, c, result>>

SetC(r) == c' = r.self /\ Return(r, "compare")

\* c = Version(s)
NewC(inputs) ==
    /\ pc = "c"
    /\ \E s \in inputs : SetC(Version(s))
    /\ UNCHANGED <<version, self, a, b, result>>

\* The comparisons of a and b: a.compare(b), b.compare(a) and the operators
\* main() asserts, a < b, b > a, b != a, with b < a and a == b.
PairResults ==
    [ab |-> compare(a, b), ba |-> compare(b, a),
     bc |-> RetNone, ac |-> RetNone,
     a_lt_b |-> lt(a, b), b_gt_a |-> gt(b, a), b_lt_a |-> lt(b, a),
     a_eq_b |-> eq(a, b), b_ne_a |-> ne(b, a)]

\* A KeyError raised by a comparison leaves no result.
Finish(rs) ==
    IF RaisedKeyError \in {rs.ab, rs.ba, rs.bc, rs.ac}
    THEN /\ raised' = [exc |-> "KeyError", msg |-> <<>>]
         /\ pc' = "raised"
         /\ UNCHANGED result
    ELSE /\ result' = rs
         /\ pc' = "done"
         /\ UNCHANGED raised

\* Compare a and b.
Compare ==
    /\ pc = "c"
    /\ Finish(PairResults)
    /\ UNCHANGED <<version, self, a, b, c>>

\* Compare a and b, b and c, a and c.
CompareThree ==
    /\ pc = "compare"
    /\ Finish([PairResults EXCEPT !.bc = compare(b, c), !.ac = compare(a, c)])
    /\ UNCHANGED <<version, self, a, b, c>>

Next == NewA(CompareInputs) \/ NewB(CompareInputs) \/ Compare

Spec == Init /\ [][Next]_vars

NextTransitive ==
    \/ NewA(TransitiveInputs)
    \/ NewB(TransitiveInputs)
    \/ NewC(TransitiveInputs)
    \/ CompareThree

SpecTransitive == Init /\ [][NextTransitive]_vars

(***************************************************************************)
(* Properties of construction (SpecParse)                                  *)
(***************************************************************************)
\* major "." minor "." patch, each 0 or a digit run without a leading zero
MainVersionString(m) ==
    LET parts == split(m, ".")
    IN  /\ Len(parts) = 3
        /\ \A i \in 1..3 : NumericIdentifier(parts[i])

\* The strings of the grammar: a main version followed by nothing, by a
\* shorthand token, or by "-" and dot-separated identifiers.
InGrammar(v) ==
    \E k \in 1..Len(v) :
        /\ MainVersionString(SubSeq(v, 1, k))
        /\ LET rest == SubSeq(v, k + 1, Len(v))
           IN  \/ rest = <<>>
               \/ rest \in ShortenTokens
               \/ DefaultPreRelease(rest)

\* The canonical stage token of a shorthand token.
Canonical(t) ==
    CASE t = S_a  -> S_alpha
      [] t = S_b  -> S_beta
      [] t = S_rc -> S_release_candidate
      [] t = S_r  -> S_release
      [] OTHER    -> t

\* C2: for a main version X.Y.Z and a shorthand token t, Version("X.Y.Z" + t)
\* succeeds and its pre_release is exactly the one canonical stage token of t.
ShorthandYieldsCanonicalToken ==
    \A t \in ShortenTokens :
        \A k \in 1..Len(version) :
            ( /\ pc # "call"
              /\ MainVersionString(SubSeq(version, 1, k))
              /\ SubSeq(version, k + 1, Len(version)) = t )
            => /\ pc = "constructed"
               /\ raised = NoError
               /\ self.pre_release = <<StrId(Canonical(t))>>

\* C3: every element of a constructed Version's pre_release is a
\* non-negative integer or one of the four stage tokens.
PreReleaseElementsAreIdentifiers ==
    pc = "constructed" =>
        \A i \in 1..Len(self.pre_release) :
            LET x == self.pre_release[i]
            IN  \/ x.type = "int" /\ x.i >= 0
                \/ /\ x.type = "str"
                   /\ x.s \in {S_alpha, S_beta, S_release_candidate, S_release}

\* C4: a string outside the grammar raises the invalid-format error, which
\* carries the string, and no Version is produced.
OutsideGrammarRaisesInvalidFormat ==
    (pc # "call" /\ ~ InGrammar(version)) =>
        /\ pc = "raised"
        /\ self = NoVersion
        /\ raised.exc = "ValueError"
        /\ Len(raised.msg) > Len(version)
        /\ SubSeq(raised.msg, 1, Len(version)) = version
        /\ raised.msg = NotValidVersion(version)

(***************************************************************************)
(* Properties of comparison (Spec, SpecTransitive)                         *)
(***************************************************************************)
Less == Ret(0 - 1)

Equal == Ret(0)

Greater == Ret(1)

\* C1: if compare(a, b) <= 0 and compare(b, c) <= 0 then compare(a, c) <= 0.
CompareIsTransitive ==
    pc = "done" =>
        /\ {result.ab, result.bc, result.ac} \subseteq {Less, Equal, Greater}
        /\ (result.ab.v <= 0 /\ result.bc.v <= 0) => result.ac.v <= 0

\* An integer-led pre-release below a longer stage-led one below a final
\* release of the same main version.
TransitiveChainCompared ==
    /\ pc = "done"
    /\ a.main_version = b.main_version
    /\ b.main_version = c.main_version
    /\ a.pre_release_len = 1
    /\ a.pre_release[1].type = "int"
    /\ b.pre_release_len = 2
    /\ b.pre_release[1].type = "str"
    /\ c.pre_release_len = 0
    /\ result.ab = Less
    /\ result.bc = Less
    /\ result.ac = Less

\* C5: with equal main versions, a non-empty pre_release sorts below an
\* empty one.
PreReleaseBelowFinal ==
    ( /\ pc = "done"
      /\ a.main_version = b.main_version
      /\ Len(a.pre_release) > 0
      /\ Len(b.pre_release) = 0 )
    => /\ result.ab = Less
       /\ result.ba = Greater
       /\ result.a_lt_b

PreReleaseAndFinalCompared ==
    /\ pc = "done"
    /\ a.main_version = b.main_version
    /\ Len(a.pre_release) = 2
    /\ a.pre_release[1].type = "str"
    /\ a.pre_release[2].type = "int"
    /\ Len(b.pre_release) = 0
    /\ result.ab = Less

\* (major, minor, patch) of x before that of y
MainVersionBefore(x, y) ==
    \/ x[1] < y[1]
    \/ x[1] = y[1] /\ x[2] < y[2]
    \/ x[1] = y[1] /\ x[2] = y[2] /\ x[3] < y[3]

\* C6: a lexicographically smaller main version makes a < b whatever the
\* pre-releases are.
MainVersionDecides ==
    (pc = "done" /\ MainVersionBefore(a.main_version, b.main_version))
    => /\ result.ab = Less
       /\ result.ba = Greater
       /\ result.a_lt_b

\* 1.2.10 (final) against 1.10.0 with a pre-release: the minor decides
\* against the patch and against the pre-release rule.
MainVersionDecidesCompared ==
    /\ pc = "done"
    /\ a.main_version = <<1, 2, 10>>
    /\ a.pre_release_len = 0
    /\ b.main_version = <<1, 10, 0>>
    /\ b.pre_release_len = 2
    /\ result.ab = Less

\* C7: compare(a, b) is 1 exactly when compare(b, a) is -1, and a < b
\* implies b > a.
CompareIsAntisymmetric ==
    pc = "done" =>
        /\ (result.ab = Greater) <=> (result.ba = Less)
        /\ (result.ab = Less) <=> (result.ba = Greater)
        /\ result.a_lt_b => result.b_gt_a

\* Two integer identifiers decide in the second position.
AntisymmetricPairCompared ==
    /\ pc = "done"
    /\ a.main_version = b.main_version
    /\ a.pre_release_len = 2
    /\ b.pre_release_len = 2
    /\ a.pre_release[1] = b.pre_release[1]
    /\ a.pre_release[2] = IntId(10)
    /\ b.pre_release[2] = IntId(2)
    /\ result.ab = Greater
    /\ result.ba = Less

\* C8: a == b exactly when compare(a, b) is 0; a < b implies a != b; exactly
\* one of a < b, a == b, b < a holds.
OperatorsAgreeWithCompare ==
    pc = "done" =>
        /\ result.a_eq_b <=> (result.ab = Equal)
        /\ result.a_lt_b => result.b_ne_a
        /\ \/ result.a_lt_b /\ ~ result.a_eq_b /\ ~ result.b_lt_a
           \/ ~ result.a_lt_b /\ result.a_eq_b /\ ~ result.b_lt_a
           \/ ~ result.a_lt_b /\ ~ result.a_eq_b /\ result.b_lt_a

\* Equal operands with a two-element pre_release.
EqualPairCompared ==
    /\ pc = "done"
    /\ a = b
    /\ a.pre_release_len = 2
    /\ result.ab = Equal
    /\ result.a_eq_b

\* C9: where two non-empty pre-releases of equal main versions first differ
\* in an integer against a stage token, the integer's side is the lesser.
IntegerBelowStageToken ==
    ( /\ pc = "done"
      /\ a.main_version = b.main_version )
    => \A i \in 1..min(Len(a.pre_release), Len(b.pre_release)) :
          ( /\ \A j \in 1..(i - 1) : a.pre_release[j] = b.pre_release[j]
            /\ a.pre_release[i].type = "int"
            /\ b.pre_release[i].type = "str" )
          => /\ partial_compare(a.pre_release[i], b.pre_release[i]) = Less
             /\ partial_compare(b.pre_release[i], a.pre_release[i]) = Greater
             /\ result.ab = Less
             /\ result.ba = Greater
             /\ result.a_lt_b

\* 10 against alpha in the second position, after an equal first one.
IntegerAndStageTokenCompared ==
    /\ pc = "done"
    /\ a.main_version = b.main_version
    /\ a.pre_release_len = 2
    /\ b.pre_release_len = 2
    /\ a.pre_release[1] = b.pre_release[1]
    /\ a.pre_release[2] = IntId(10)
    /\ b.pre_release[2] = StrId(S_alpha)
    /\ result.ab = Less
    /\ result.ba = Greater

\* C10: comparing two constructed Versions returns -1, 0 or 1: nothing
\* raises after both operands are constructed, no partial_compare yields
\* None, and every string identifier is in the priority table.
CompareReturnsThreeWay ==
    /\ pc = "done" =>
          {result.ab, result.ba} \subseteq {Less, Equal, Greater}
    /\ pc = "raised" => ~ (IsVersion(a) /\ IsVersion(b))
    /\ \A x \in {a, b} : \A i \in 1..Len(x.pre_release) :
          \/ x.pre_release[i].type = "int"
          \/ /\ x.pre_release[i].type = "str"
             /\ x.pre_release[i].s \in DOMAIN PRIORITY
    /\ \A i \in 1..min(Len(a.pre_release), Len(b.pre_release)) :
          partial_compare(a.pre_release[i], b.pre_release[i])
              \in {Less, Equal, Greater}

\* Stage tokens against stage tokens, in pre-releases of different lengths.
StageTokensCompared ==
    /\ pc = "done"
    /\ a.main_version = b.main_version
    /\ a.pre_release = <<StrId(S_release_candidate), StrId(S_alpha)>>
    /\ b.pre_release = <<StrId(S_release)>>
    /\ result.ab = Less
    /\ result.ba = Greater

=============================================================================
